---------------------------- MODULE Spec2Model ----------------------------
(***************************************************************************)
(* LED ring + ESP-NOW controller                                           *)
(* (0407_version_color_timer_enable_typing_ESPtesting.ino).                *)
(*                                                                         *)
(* The sketch is a single cooperative loop() plus one asynchronous         *)
(* receive callback.  loop() is cut at the points where another context    *)
(* can be observed: each read of a button pin, the fetch and the store of  *)
(* a debug character, the evaluation of the switch, the return of the      *)
(* render call and the timer check.  The callback OnDataRecv may run       *)
(* between any two of these steps.                                         *)
(*                                                                         *)
(* Inputs (pin levels, serial bytes, inbound messages, the outcome of the  *)
(* transport bring-up, readings of millis()) are drawn from small sets.    *)
(* The pixel buffer holds the colours handed to fill/setPixelColor; the    *)
(* global brightness set once in setup() scales every pixel alike and is   *)
(* left out.                                                               *)
(***************************************************************************)
EXTENDS Integers, Sequences, FiniteSets, TLC

(***************************************************************************)
(* Program constants                                                       *)
(***************************************************************************)
NUM_LEDS == 8
MY_ID == 1
HIGH == 1
LOW == 0
\* the fifteen seconds of the README
duration15s == 15 * 1000
\* int duration = 150000
duration == 150000
DebounceMs == 50
Char0 == 48
Char6 == 54
CMD_ENABLE == 1
CMD_DISABLE == 2
CMD_FSM == 3

(***************************************************************************)
(* Bounds of the model                                                     *)
(***************************************************************************)
\* sampled readings of millis() after the epoch of a deadline (see ClockPoints)
MaxLater == 2
\* inbound state bytes 0..MaxInState (0..6 defined, above: out of range)
MaxInState == 7
\* accepted color-button edges that are followed
MaxColorEdges == 5

Pixels == 0..(NUM_LEDS - 1)
Levels == {LOW, HIGH}
NoPattern == 0 - 1
NoByte == 0 - 1

\* uint32_t Adafruit_NeoPixel::Color(r, g, b): packed 0x00RRGGBB
Color(r, g, b) == r * 65536 + g * 256 + b

colors == << Color(255, 0, 0), Color(0, 255, 0), Color(0, 0, 255),
             Color(255, 255, 0), Color(255, 255, 255) >>
totalColors == Len(colors)

\* uint8_t channel scaling with the (uint8_t) truncations of the source
\* a dimColor that shifts by eight bits instead of dividing by 255
dimColorShift(c, brightness) ==
    LET r == (c \div 65536) % 256
        g == (c \div 256) % 256
        b == c % 256
    IN Color(((r * brightness) \div 256) % 256,
             ((g * brightness) \div 256) % 256,
             ((b * brightness) \div 256) % 256)

dimColor(c, brightness) ==
    LET r == (c \div 65536) % 256
        g == (c \div 256) % 256
        b == c % 256
    IN Color(((r * brightness) \div 255) % 256,
             ((g * brightness) \div 255) % 256,
             ((b * brightness) \div 255) % 256)

Clear == [i \in Pixels |-> 0]
Fill(c) == [i \in Pixels |-> c]
Frame(px, ms) == [px |-> px, ms |-> ms]

(***************************************************************************)
(* The display effects: the frames handed to ring.show(), each with the    *)
(* time it is held by the delay() calls that follow it.                    *)
(***************************************************************************)
rotatingEffectCW(c) ==
    [k \in 1..NUM_LEDS |-> Frame([Clear EXCEPT ![k - 1] = c], 100)]

\* a counter-clockwise rotation whose loop counts upwards
rotatingEffectCCWUpwards(c) ==
    [k \in 1..NUM_LEDS |-> Frame([Clear EXCEPT ![k - 1] = c], 100)]

rotatingEffectCCW(c) ==
    [k \in 1..NUM_LEDS |-> Frame([Clear EXCEPT ![NUM_LEDS - k] = c], 100)]

slowBlinkingEffect(c) == << Frame(Fill(c), 300), Frame(Clear, 300) >>

fastBlinkingEffect(c) == << Frame(Fill(c), 40), Frame(Clear, 40) >>

alwaysBright(c) == << Frame(Fill(c), 0) >>

wipeFillEffect(c) ==
    [k \in 1..NUM_LEDS |->
        Frame([i \in Pixels |-> IF i < k THEN c ELSE 0],
              IF k = NUM_LEDS THEN 80 + 300 ELSE 80)]
    \o << Frame(Clear, 200) >>

pulseForward(c) ==
    [k \in 1..NUM_LEDS |->
        LET i == k - 1
        IN Frame([j \in Pixels |->
                    IF j = i THEN c
                    ELSE IF i > 0 /\ j = i - 1 THEN dimColor(c, 100)
                    ELSE IF i > 1 /\ j = i - 2 THEN dimColor(c, 40)
                    ELSE 0], 80)]

\* a switch with a default case that shows the solid color
RenderFramesDefaultSolid(p, c) ==
    CASE p = 0 -> rotatingEffectCW(c)
      [] p = 1 -> rotatingEffectCCW(c)
      [] p = 2 -> slowBlinkingEffect(c)
      [] p = 3 -> fastBlinkingEffect(c)
      [] p = 4 -> alwaysBright(c)
      [] p = 5 -> wipeFillEffect(c)
      [] p = 6 -> pulseForward(c)
      [] OTHER -> alwaysBright(c)

\* switch (motionCommand) of loop(): no case matches outside 0..6
RenderFrames(p, c) ==
    CASE p = 0 -> rotatingEffectCW(c)
      [] p = 1 -> rotatingEffectCCW(c)
      [] p = 2 -> slowBlinkingEffect(c)
      [] p = 3 -> fastBlinkingEffect(c)
      [] p = 4 -> alwaysBright(c)
      [] p = 5 -> wipeFillEffect(c)
      [] p = 6 -> pulseForward(c)
      [] OTHER -> << >>

RECURSIVE SumMs(_)
SumMs(fs) == IF fs = << >> THEN 0 ELSE Head(fs).ms + SumMs(Tail(fs))

\* the pixel buffer a display call leaves behind
LastPx(fs, px) == IF fs = << >> THEN px ELSE fs[Len(fs)].px

(***************************************************************************)
(* Clock arithmetic.  millis() is an unsigned 32 bit counter and startTime *)
(* an int.  A 32 bit word is kept as its two 16 bit halves, so that words  *)
(* up to 2^32 - 1 and the wrap-around of their difference are exact.       *)
(***************************************************************************)
Half == 256 * 256
Word(h, l) == [hi |-> h, lo |-> l]
\* the word of a natural number below 2^31
WordOf(n) == Word(n \div Half, n % Half)

\* (a - b) modulo 2^32
Sub32(a, b) ==
    LET borrow == IF a.lo < b.lo THEN 1 ELSE 0
    IN Word((a.hi - b.hi - borrow) % Half, (a.lo - b.lo) % Half)

\* unsigned comparison of a word with a natural number below 2^31
WordGt(w, n) == w.hi > n \div Half \/ (w.hi = n \div Half /\ w.lo > n % Half)
WordGe(w, n) == w.hi > n \div Half \/ (w.hi = n \div Half /\ w.lo >= n % Half)

\* startTime = millis(): unsigned long to int keeps the bit pattern
\* a conversion that stops at the largest int
ToInt32Saturating(w) ==
    IF w.hi >= Half \div 2 THEN (Half \div 2 - 1) * Half + (Half - 1)
    ELSE w.hi * Half + w.lo

ToInt32(w) ==
    IF w.hi >= Half \div 2 THEN (w.hi - Half) * Half + w.lo
    ELSE w.hi * Half + w.lo

\* millis() - startTime: the int operand is converted to unsigned long
ToUint32(i) == Word((i \div Half) % Half, i % Half)

\* a timer measured from boot instead of from startTime
ExpiredSinceBoot(t, st) == WordGt(t, duration)

\* (millis() - startTime) > duration, t the reading of millis()
Expired(t, st) == WordGt(Sub32(t, ToUint32(st)), duration)

\* The sampled readings of millis().  An epoch is one session duration.  In
\* the epoch of boot and in the next one (where a session started in the
\* first meets its deadline): the start of the epoch, one debounce delay
\* later, and one millisecond after that.  Then the starts of MaxLater more
\* epochs.
ClockOffsets ==
    {e * duration + o : e \in 0..1, o \in {0, DebounceMs, DebounceMs + 1}}
    \cup {e * duration : e \in 2..(1 + MaxLater)}

ClockPoints == {WordOf(x) : x \in ClockOffsets}

\* w + n in 32 bits
Add32(w, n) ==
    Word((w.hi + (w.lo + n) \div Half) % Half, (w.lo + n) % Half)

\* The same readings late in the life of the counter: from one duration
\* before it passes the largest int, and from one duration before it wraps
\* to zero.
WrapBases ==
    {Sub32(Word(Half \div 2, 0), WordOf(duration)),
     Sub32(WordOf(0), WordOf(duration))}

WrapPoints == {Add32(b, x) : b \in WrapBases, x \in ClockOffsets}

\* struct_message as filled in by sendCommand
Msg(cmd, st) == [senderID |-> MY_ID, command |-> cmd, state |-> st]

Buttons == {"color", "enable"}

VARIABLES
    pc,                     \* position of the main task: setup, then loop()
    enabled,
    lastEnableButtonState,
    lastColorButtonState,
    colorIndex,
    motionCommand,
    startTime,
    ring,                   \* pixel buffer of the NeoPixel object
    input,                  \* char input of loop(), between read and store
    pattern,                \* value the switch was evaluated on
    color,                  \* argument of the running effect
    now,                    \* current value of millis()
    net,                    \* transport: "ok", "noPeer" (no peer), "down"
    outbox,                 \* messages handed to esp_now_send this cycle
    sendLog,                \* result of each of these calls, as logged
    shown,                  \* frames shown this cycle
    \* observers: they record what happened and decide nothing
    cycleEnabled,           \* enabled flag at the start of this cycle
    cycleEdge,              \* an enable edge was confirmed in this cycle
    nColorEdges,            \* accepted color-button edges so far
    lastWrite,              \* value carried by the latest Display State write
    lastSrc,                \* who made it, and whether it replaced a received one
    \* the physical buttons, where a specification follows them
    btn,                    \* contact of each button: open, closed, bouncing
    hits,                   \* events credited to the current press
    pressedAt,              \* millis() when the current press began
    run,                    \* events since the button last read HIGH at a poll
    \* bookkeeping, where a specification keeps it
    delivered,              \* command and state of the latest inbound message
    nEnable,                \* Enable messages sent since start-up
    nDisable,               \* Disable messages sent since start-up
    lastSent,               \* command of the latest message sent
    startWord,              \* millis() at the latest confirmed enable edge
    dimArg,                 \* a color and a brightness
    dimOut                  \* dimColor of them

progVars == << pc, enabled, lastEnableButtonState, lastColorButtonState,
               colorIndex, motionCommand, startTime, ring, input, pattern,
               color, now, net, outbox, sendLog, shown >>
obsVars == << cycleEnabled, cycleEdge, nColorEdges, lastWrite, lastSrc >>
pressVars == << btn, hits, pressedAt, run >>
watchVars == << delivered, nEnable, nDisable, lastSent, startWord, dimArg,
                dimOut >>
envVars == << pressVars, watchVars >>
vars == << progVars, obsVars, envVars >>

CurrentColor == colors[colorIndex + 1]

\* A blocking step that sleeps at least d ms ends at a sampled reading at
\* most one session duration later.
Advance(d) ==
    {t \in ClockPoints \cup WrapPoints : LET e == Sub32(t, now)
                         IN WordGe(e, d) /\ ~WordGt(e, duration)}

\* (millis() - startTime) as the timer check computes it
Elapsed == Sub32(now, ToUint32(startTime))

\* the digit a debug character stands for
DigitOf(c) == CHOOSE d \in 0..9 : Char0 + d = c

\* the board at power-up
Boot ==
    /\ pc = "setup"
    /\ enabled = FALSE
    /\ lastEnableButtonState = HIGH
    /\ lastColorButtonState = HIGH
    /\ colorIndex = 0
    /\ motionCommand = 0
    /\ startTime = 0
    /\ ring = Clear
    /\ input = 0
    /\ pattern = NoPattern
    /\ color = 0
    /\ now = WordOf(0)
    /\ net = "down"
    /\ outbox = << >>
    /\ sendLog = << >>
    /\ shown = << >>
    /\ cycleEnabled = FALSE
    /\ cycleEdge = FALSE
    /\ nColorEdges = 0
    /\ lastWrite = 0
    /\ lastSrc = "init"
    /\ btn = [b \in Buttons |-> "open"]
    /\ hits = [b \in Buttons |-> 0]
    /\ pressedAt = [b \in Buttons |-> WordOf(0)]
    /\ run = [b \in Buttons |-> 0]
    /\ delivered = [command |-> 0, state |-> 0]
    /\ nEnable = 0
    /\ nDisable = 0
    /\ lastSent = 0
    /\ startWord = WordOf(0)

Init ==
    /\ Boot
    /\ dimArg = [color |-> 0, brightness |-> 0]
    /\ dimOut = 0

\* setup(): outcome of esp_now_init / esp_now_add_peer
Setup(outcome) ==
    /\ pc = "setup"
    /\ pc' = "color"
    /\ ring' = Clear
    /\ net' = outcome
    /\ UNCHANGED << enabled, lastEnableButtonState, lastColorButtonState,
                    colorIndex, motionCommand, startTime, input, pattern,
                    color, now, outbox, sendLog, shown >>
    /\ UNCHANGED obsVars

\* the cursor wrapped one entry short of the palette
PollColorShortWrap(raw) ==
    /\ pc = "color"
    /\ pc' = "enable"
    /\ IF raw = LOW /\ lastColorButtonState = HIGH
       THEN /\ \E t \in Advance(DebounceMs) : now' = t
            /\ colorIndex' = (colorIndex + 1) % (totalColors - 1)
            /\ ring' = Fill(colors[colorIndex' + 1])
            /\ shown' = alwaysBright(colors[colorIndex' + 1])
            /\ nColorEdges' = nColorEdges + 1
       ELSE /\ shown' = << >>
            /\ UNCHANGED << now, colorIndex, ring, nColorEdges >>
    /\ lastColorButtonState' = raw
    /\ outbox' = << >>
    /\ sendLog' = << >>
    /\ cycleEnabled' = enabled
    /\ cycleEdge' = FALSE
    /\ UNCHANGED << enabled, lastEnableButtonState, motionCommand, startTime,
                    input, pattern, color, net >>
    /\ UNCHANGED << lastWrite, lastSrc >>

\* a color button whose last level is never stored
PollColorNoLatch(raw) ==
    /\ pc = "color"
    /\ pc' = "enable"
    /\ IF raw = LOW /\ lastColorButtonState = HIGH
       THEN /\ \E t \in Advance(DebounceMs) : now' = t
            /\ colorIndex' = (colorIndex + 1) % totalColors
            /\ ring' = Fill(colors[colorIndex' + 1])
            /\ shown' = alwaysBright(colors[colorIndex' + 1])
            /\ nColorEdges' = nColorEdges + 1
       ELSE /\ shown' = << >>
            /\ UNCHANGED << now, colorIndex, ring, nColorEdges >>
    /\ outbox' = << >>
    /\ sendLog' = << >>
    /\ cycleEnabled' = enabled
    /\ cycleEdge' = FALSE
    /\ UNCHANGED << enabled, lastEnableButtonState, lastColorButtonState,
                    motionCommand, startTime, input, pattern, color, net >>
    /\ UNCHANGED << lastWrite, lastSrc >>

\* loop(): color selection button
PollColor(raw) ==
    /\ pc = "color"
    /\ pc' = "enable"
    /\ IF raw = LOW /\ lastColorButtonState = HIGH
       THEN /\ \E t \in Advance(DebounceMs) : now' = t
            /\ colorIndex' = (colorIndex + 1) % totalColors
            /\ ring' = Fill(colors[colorIndex' + 1])
            /\ shown' = alwaysBright(colors[colorIndex' + 1])
            /\ nColorEdges' = nColorEdges + 1
       ELSE /\ shown' = << >>
            /\ UNCHANGED << now, colorIndex, ring, nColorEdges >>
    /\ lastColorButtonState' = raw
    /\ outbox' = << >>
    /\ sendLog' = << >>
    /\ cycleEnabled' = enabled
    /\ cycleEdge' = FALSE
    /\ UNCHANGED << enabled, lastEnableButtonState, motionCommand, startTime,
                    input, pattern, color, net >>
    /\ UNCHANGED << lastWrite, lastSrc >>

\* loop(): ENABLE button, first read
PollEnable(raw) ==
    /\ pc = "enable"
    /\ IF raw = LOW /\ lastEnableButtonState = HIGH
       THEN /\ pc' = "confirm"
            /\ UNCHANGED lastEnableButtonState
       ELSE /\ pc' = "serial"
            /\ lastEnableButtonState' = raw
    /\ UNCHANGED << enabled, lastColorButtonState, colorIndex, motionCommand,
                    startTime, ring, input, pattern, color, now, net, outbox, sendLog,
                    shown >>
    /\ UNCHANGED obsVars

\* esp_now_send succeeds or fails; without a started transport and a
\* registered peer it can only fail
SendResults == IF net = "ok" THEN {"sent", "failed"} ELSE {"failed"}

\* a sendCommand that tries once more after a failed send
sendCommandRetry(cmd) ==
    \E result \in SendResults :
        IF result = "failed"
        THEN /\ outbox' = outbox \o << Msg(cmd, 0), Msg(cmd, 0) >>
             /\ \E again \in SendResults :
                    sendLog' = sendLog \o << result, again >>
        ELSE /\ outbox' = Append(outbox, Msg(cmd, 0))
             /\ sendLog' = Append(sendLog, result)

\* sendCommand: the message is handed to esp_now_send, the result only logged
sendCommand(cmd) ==
    /\ outbox' = Append(outbox, Msg(cmd, 0))
    /\ \E result \in SendResults : sendLog' = Append(sendLog, result)

\* an enable button that is ignored while the session is Enabled
ConfirmEnableWhenDisabled(raw) ==
    /\ pc = "confirm"
    /\ pc' = "serial"
    /\ \E t \in Advance(DebounceMs) :
         /\ now' = t
         /\ IF raw = LOW /\ ~enabled
            THEN /\ enabled' = TRUE
                 /\ startTime' = ToInt32(t)
                 /\ sendCommand(CMD_ENABLE)
            ELSE UNCHANGED << enabled, startTime, outbox, sendLog >>
    /\ lastEnableButtonState' = LOW
    /\ cycleEdge' = (raw = LOW)
    /\ UNCHANGED << lastColorButtonState, colorIndex, motionCommand, ring,
                    input, pattern, color, net, shown >>
    /\ UNCHANGED << cycleEnabled, nColorEdges, lastWrite, lastSrc >>

\* loop(): ENABLE button, debounce delay and second read
ConfirmEnable(raw) ==
    /\ pc = "confirm"
    /\ pc' = "serial"
    /\ \E t \in Advance(DebounceMs) :
         /\ now' = t
         /\ IF raw = LOW
            THEN /\ enabled' = TRUE
                 /\ startTime' = ToInt32(t)
                 /\ sendCommand(CMD_ENABLE)
            ELSE UNCHANGED << enabled, startTime, outbox, sendLog >>
    /\ lastEnableButtonState' = LOW
    /\ cycleEdge' = (raw = LOW)
    /\ UNCHANGED << lastColorButtonState, colorIndex, motionCommand, ring,
                    input, pattern, color, net, shown >>
    /\ UNCHANGED << cycleEnabled, nColorEdges, lastWrite, lastSrc >>

\* loop(): Serial.available() / Serial.read(); byte = NoByte: nothing waiting
SerialRead(byte) ==
    /\ pc = "serial"
    /\ IF byte # NoByte /\ byte >= Char0 /\ byte <= Char6
       THEN /\ pc' = "store"
            /\ input' = byte
       ELSE /\ pc' = "main"
            /\ UNCHANGED input
    /\ UNCHANGED << enabled, lastEnableButtonState, lastColorButtonState,
                    colorIndex, motionCommand, startTime, ring, pattern,
                    color, now, net, outbox, sendLog, shown >>
    /\ UNCHANGED obsVars

\* the character stored without subtracting '0'
SerialStoreRaw ==
    /\ pc = "store"
    /\ pc' = "main"
    /\ motionCommand' = input
    /\ input' = 0
    /\ lastWrite' = DigitOf(input)
    /\ lastSrc' = IF lastSrc = "recv" THEN "debugOverRecv" ELSE "debug"
    /\ UNCHANGED << enabled, lastEnableButtonState, lastColorButtonState,
                    colorIndex, startTime, ring, pattern, color, now, net,
                    outbox, sendLog, shown >>
    /\ UNCHANGED << cycleEnabled, cycleEdge, nColorEdges >>

\* loop(): motionCommand = input - '0'
SerialStore ==
    /\ pc = "store"
    /\ pc' = "main"
    /\ motionCommand' = input - Char0
    /\ input' = 0
    /\ lastWrite' = DigitOf(input)
    /\ lastSrc' = IF lastSrc = "recv" THEN "debugOverRecv" ELSE "debug"
    /\ UNCHANGED << enabled, lastEnableButtonState, lastColorButtonState,
                    colorIndex, startTime, ring, pattern, color, now, net,
                    outbox, sendLog, shown >>
    /\ UNCHANGED << cycleEnabled, cycleEdge, nColorEdges >>

\* the loop with the timer check after, not inside, "if (enabled)"
MainTimerOutsideIf ==
    /\ pc = "main"
    /\ IF enabled
       THEN /\ pc' = "render"
            /\ pattern' = motionCommand
            /\ color' = CurrentColor
            /\ UNCHANGED << ring, shown >>
       ELSE /\ pc' = "timer"
            /\ ring' = Fill(CurrentColor)
            /\ shown' = shown \o alwaysBright(CurrentColor)
            /\ UNCHANGED << pattern, color >>
    /\ UNCHANGED << now, enabled, lastEnableButtonState,
                    lastColorButtonState, colorIndex, motionCommand,
                    startTime, input, net, outbox, sendLog >>
    /\ UNCHANGED obsVars

\* the loop without the else branch of "if (enabled)"
MainNoElse ==
    /\ pc = "main"
    /\ IF enabled
       THEN /\ pc' = "render"
            /\ pattern' = motionCommand
            /\ color' = CurrentColor
            /\ UNCHANGED << ring, shown >>
       ELSE /\ pc' = "color"
            /\ UNCHANGED << ring, shown, pattern, color >>
    /\ UNCHANGED << now, enabled, lastEnableButtonState,
                    lastColorButtonState, colorIndex, motionCommand,
                    startTime, input, net, outbox, sendLog >>
    /\ UNCHANGED obsVars

\* loop(): if (enabled) switch (motionCommand) ... else alwaysBright
Main ==
    /\ pc = "main"
    /\ IF enabled
       THEN /\ pc' = "render"
            /\ pattern' = motionCommand
            /\ color' = CurrentColor
            /\ UNCHANGED << ring, shown >>
       ELSE /\ pc' = "color"
            /\ ring' = Fill(CurrentColor)
            /\ shown' = shown \o alwaysBright(CurrentColor)
            /\ UNCHANGED << pattern, color >>
    /\ UNCHANGED << now, enabled, lastEnableButtonState,
                    lastColorButtonState, colorIndex, motionCommand,
                    startTime, input, net, outbox, sendLog >>
    /\ UNCHANGED obsVars

\* an effect that follows the Display State while it runs
RenderFollowsWrites ==
    /\ pc = "render"
    /\ pc' = "timer"
    /\ \E fs \in {RenderFrames(motionCommand, color)} :
          /\ ring' = LastPx(fs, ring)
          /\ shown' = shown \o fs
          /\ \E d \in {SumMs(fs)} : \E t \in Advance(d) : now' = t
    /\ UNCHANGED << enabled, lastEnableButtonState, lastColorButtonState,
                    colorIndex, motionCommand, startTime, input, pattern,
                    color, net, outbox, sendLog >>
    /\ UNCHANGED obsVars

\* the effect selected by the switch runs to its end
Render ==
    /\ pc = "render"
    /\ pc' = "timer"
    /\ \E fs \in {RenderFrames(pattern, color)} :
          /\ ring' = LastPx(fs, ring)
          /\ shown' = shown \o fs
          /\ \E d \in {SumMs(fs)} : \E t \in Advance(d) : now' = t
    /\ UNCHANGED << enabled, lastEnableButtonState, lastColorButtonState,
                    colorIndex, motionCommand, startTime, input, pattern,
                    color, net, outbox, sendLog >>
    /\ UNCHANGED obsVars

\* the timer check without the Disable send
TimerCheckNoSend ==
    /\ pc = "timer"
    /\ pc' = "color"
    /\ IF Expired(now, startTime)
       THEN /\ enabled' = FALSE
            /\ UNCHANGED << outbox, sendLog >>
       ELSE UNCHANGED << enabled, outbox, sendLog >>
    /\ pattern' = NoPattern
    /\ color' = 0
    /\ UNCHANGED << lastEnableButtonState, lastColorButtonState, colorIndex,
                    motionCommand, startTime, ring, input, now, net, shown >>
    /\ UNCHANGED << cycleEnabled, cycleEdge, nColorEdges, lastWrite, lastSrc >>

\* the timer check without "enabled = false"
TimerCheckKeepsEnabled ==
    /\ pc = "timer"
    /\ pc' = "color"
    /\ IF Expired(now, startTime)
       THEN /\ sendCommand(CMD_DISABLE)
            /\ UNCHANGED enabled
       ELSE UNCHANGED << enabled, outbox, sendLog >>
    /\ pattern' = NoPattern
    /\ color' = 0
    /\ UNCHANGED << lastEnableButtonState, lastColorButtonState, colorIndex,
                    motionCommand, startTime, ring, input, now, net, shown >>
    /\ UNCHANGED << cycleEnabled, cycleEdge, nColorEdges, lastWrite, lastSrc >>

\* loop(): if ((millis() - startTime) > duration)
TimerCheck ==
    /\ pc = "timer"
    /\ pc' = "color"
    /\ IF Expired(now, startTime)
       THEN /\ enabled' = FALSE
            /\ sendCommand(CMD_DISABLE)
       ELSE UNCHANGED << enabled, outbox, sendLog >>
    /\ pattern' = NoPattern
    /\ color' = 0
    /\ UNCHANGED << lastEnableButtonState, lastColorButtonState, colorIndex,
                    motionCommand, startTime, ring, input, now, net, shown >>
    /\ UNCHANGED << cycleEnabled, cycleEdge, nColorEdges, lastWrite, lastSrc >>

\* a callback without the test of the command
OnDataRecvAnyCommand(cmd, st) ==
    /\ net # "down"
    /\ pc # "setup"
    /\ motionCommand' = st
    /\ IF cmd = CMD_FSM
       THEN /\ lastWrite' = st
            /\ lastSrc' = "recv"
       ELSE UNCHANGED << lastWrite, lastSrc >>
    /\ UNCHANGED << pc, enabled, lastEnableButtonState, lastColorButtonState,
                    colorIndex, startTime, ring, input, pattern, color, now,
                    net, outbox, sendLog, shown >>
    /\ UNCHANGED << cycleEnabled, cycleEdge, nColorEdges >>

\* a callback that tests for the Enable command instead of the FSM command
OnDataRecvWrongCommand(cmd, st) ==
    /\ net # "down"
    /\ pc # "setup"
    /\ IF cmd = CMD_ENABLE
       THEN motionCommand' = st
       ELSE UNCHANGED motionCommand
    /\ IF cmd = CMD_FSM
       THEN /\ lastWrite' = st
            /\ lastSrc' = "recv"
       ELSE UNCHANGED << lastWrite, lastSrc >>
    /\ UNCHANGED << pc, enabled, lastEnableButtonState, lastColorButtonState,
                    colorIndex, startTime, ring, input, pattern, color, now,
                    net, outbox, sendLog, shown >>
    /\ UNCHANGED << cycleEnabled, cycleEdge, nColorEdges >>

\* receive callback, on the transport's task
OnDataRecv(cmd, st) ==
    /\ net # "down"
    /\ pc # "setup"
    /\ IF cmd = CMD_FSM
       THEN /\ motionCommand' = st
            /\ lastWrite' = st
            /\ lastSrc' = "recv"
       ELSE UNCHANGED << motionCommand, lastWrite, lastSrc >>
    /\ UNCHANGED << pc, enabled, lastEnableButtonState, lastColorButtonState,
                    colorIndex, startTime, ring, input, pattern, color, now,
                    net, outbox, sendLog, shown >>
    /\ UNCHANGED << cycleEnabled, cycleEdge, nColorEdges >>

\* bytes offered on the debug console: '/', '0'..'6', '7'
SerialBytes == (Char0 - 1)..(Char6 + 1)

\* command bytes of inbound messages
Commands == {CMD_ENABLE, CMD_DISABLE, CMD_FSM}

\* the color button is followed for MaxColorEdges accepted edges
ColorLevels ==
    IF nColorEdges < MaxColorEdges \/ lastColorButtonState = LOW
    THEN Levels ELSE {HIGH}

(***************************************************************************)
(* The program with every input free                                       *)
(***************************************************************************)
Next ==
    \/ \E o \in {"ok", "down"} : Setup(o) /\ UNCHANGED envVars
    \/ \E raw \in ColorLevels : PollColor(raw) /\ UNCHANGED envVars
    \/ \E raw \in Levels : PollEnable(raw) /\ UNCHANGED envVars
    \/ \E raw \in Levels : ConfirmEnable(raw) /\ UNCHANGED envVars
    \/ \E b \in SerialBytes \cup {NoByte} : SerialRead(b) /\ UNCHANGED envVars
    \/ SerialStore /\ UNCHANGED envVars
    \/ Main /\ UNCHANGED envVars
    \/ Render /\ UNCHANGED envVars
    \/ TimerCheck /\ UNCHANGED envVars
    \/ \E cmd \in Commands, st \in 0..MaxInState :
          OnDataRecv(cmd, st) /\ UNCHANGED envVars

Spec == Init /\ [][Next]_vars

(***************************************************************************)
(* The program with its buttons driven by physical presses.  A press is    *)
(* one excursion open -> closed -> open of the contact, during which the   *)
(* contact may bounce; the pins are INPUT_PULLUP, so a closed contact      *)
(* reads LOW.  Console and radio are silent.                               *)
(***************************************************************************)
\* presses credited with more events than this are not bounced further
MaxHits == 2

\* digitalRead(COLOR_BUTTON), digitalRead(ENABLE_BUTTON)
digitalRead(b) == IF btn[b] = "closed" THEN LOW ELSE HIGH

PressBtn(b) ==
    /\ pc # "setup"
    /\ btn[b] = "open"
    /\ btn' = [btn EXCEPT ![b] = "closed"]
    /\ hits' = [hits EXCEPT ![b] = 0]
    /\ pressedAt' = [pressedAt EXCEPT ![b] = now]
    /\ UNCHANGED << run, progVars, obsVars, watchVars >>

BounceBtn(b) ==
    /\ btn[b] # "open"
    /\ hits[b] < MaxHits
    /\ btn' = [btn EXCEPT ![b] = IF @ = "closed" THEN "bouncing" ELSE "closed"]
    /\ UNCHANGED << hits, pressedAt, run, progVars, obsVars, watchVars >>

ReleaseBtn(b) ==
    /\ btn[b] # "open"
    /\ btn' = [btn EXCEPT ![b] = "open"]
    /\ UNCHANGED << hits, pressedAt, run, progVars, obsVars, watchVars >>

\* a color-cycle request or a session-start request made by the step
Credit ==
    /\ hits' = [b \in Buttons |->
                  IF b = "color" /\ nColorEdges' # nColorEdges THEN hits[b] + 1
                  ELSE IF b = "enable" /\ pc = "confirm" /\ cycleEdge'
                       THEN hits[b] + 1
                  ELSE hits[b]]
    /\ run' = [b \in Buttons |->
                 IF \/ b = "color" /\ pc = "color"
                    \/ b = "enable" /\ pc \in {"enable", "confirm"}
                 THEN IF digitalRead(b) = HIGH THEN 0
                      ELSE IF hits'[b] # hits[b] THEN run[b] + 1
                      ELSE run[b]
                 ELSE run[b]]
    /\ UNCHANGED << btn, pressedAt, watchVars >>

NextPress ==
    \/ Setup("ok") /\ Credit
    \/ PollColor(digitalRead("color")) /\ Credit
    \/ PollEnable(digitalRead("enable")) /\ Credit
    \/ ConfirmEnable(digitalRead("enable")) /\ Credit
    \/ SerialRead(NoByte) /\ Credit
    \/ Main /\ Credit
    \/ Render /\ Credit
    \/ TimerCheck /\ Credit
    \/ \E b \in Buttons : PressBtn(b)
    \/ \E b \in Buttons : BounceBtn(b)
    \/ \E b \in Buttons : ReleaseBtn(b)

SpecPress == Init /\ [][NextPress]_vars

(***************************************************************************)
(* One session: the enable button is pressed only at boot time, the color  *)
(* button and the console are left alone, the radio delivers any state.    *)
(* The loop keeps running and millis() keeps counting.                     *)
(***************************************************************************)
EnableLevels == IF now = WordOf(0) /\ ~enabled THEN Levels ELSE {HIGH}

LoopStep ==
    \/ PollColor(HIGH)
    \/ \E raw \in EnableLevels : PollEnable(raw)
    \/ \E raw \in Levels : ConfirmEnable(raw)
    \/ SerialRead(NoByte)
    \/ Main
    \/ Render
    \/ TimerCheck

NextLive ==
    \/ Setup("ok") /\ UNCHANGED envVars
    \/ PollColor(HIGH) /\ UNCHANGED envVars
    \/ \E raw \in EnableLevels : PollEnable(raw) /\ UNCHANGED envVars
    \/ \E raw \in Levels : ConfirmEnable(raw) /\ UNCHANGED envVars
    \/ SerialRead(NoByte) /\ UNCHANGED envVars
    \/ Main /\ UNCHANGED envVars
    \/ Render /\ UNCHANGED envVars
    \/ TimerCheck /\ UNCHANGED envVars
    \/ \E st \in 0..MaxInState : OnDataRecv(CMD_FSM, st) /\ UNCHANGED envVars

SpecLive ==
    /\ Init
    /\ [][NextLive]_vars
    /\ WF_vars(LoopStep /\ UNCHANGED envVars)
    /\ SF_vars(Render /\ now' # now /\ UNCHANGED envVars)

(***************************************************************************)
(* The radio: setup with each of its outcomes, and every inbound message   *)
(* recorded as it is delivered.  The enable button is pressed only at boot *)
(* time, the color button and the console are left alone.                  *)
(***************************************************************************)
SetupOutcomes == {"ok", "noPeer", "down"}

Deliver(cmd, st) ==
    /\ OnDataRecv(cmd, st)
    /\ delivered' = [command |-> cmd, state |-> st]
    /\ UNCHANGED << pressVars, nEnable, nDisable, lastSent, startWord,
                    dimArg, dimOut >>

NextRadio ==
    \/ \E o \in SetupOutcomes : Setup(o) /\ UNCHANGED envVars
    \/ PollColor(HIGH) /\ UNCHANGED envVars
    \/ \E raw \in EnableLevels : PollEnable(raw) /\ UNCHANGED envVars
    \/ \E raw \in Levels : ConfirmEnable(raw) /\ UNCHANGED envVars
    \/ SerialRead(NoByte) /\ UNCHANGED envVars
    \/ Main /\ UNCHANGED envVars
    \/ Render /\ UNCHANGED envVars
    \/ TimerCheck /\ UNCHANGED envVars
    \/ \E cmd \in Commands, st \in 0..MaxInState : Deliver(cmd, st)

SpecRadio == Init /\ [][NextRadio]_vars

(***************************************************************************)
(* dimColor on its own: an argument is drawn, then the function is called. *)
(***************************************************************************)
\* largest uint8_t
MaxByte == 255

\* every value of each channel, the palette, and colors with a nonzero
\* fourth byte
DimColors ==
    {Color(v, MaxByte - v, (7 * v) % (MaxByte + 1)) : v \in 0..MaxByte}
    \cup {colors[k] : k \in 1..totalColors}
    \cup {Color(MaxByte + 1 + v, v, MaxByte) : v \in {1, MaxByte}}

NotDimmed == 0 - 1

InitDim ==
    /\ Boot
    /\ dimArg \in [color : DimColors, brightness : 0..MaxByte]
    /\ dimOut = NotDimmed

CallDimColor ==
    /\ dimOut = NotDimmed
    /\ dimOut' = dimColor(dimArg.color, dimArg.brightness)
    /\ UNCHANGED << progVars, obsVars, pressVars, delivered, nEnable,
                    nDisable, lastSent, startWord, dimArg >>

SpecDim == InitDim /\ [][CallDimColor]_vars

(***************************************************************************)
(* The messages sent, counted over the whole run.  The enable button is    *)
(* free, the color button and the console are left alone.                  *)
(***************************************************************************)
\* the messages handed to esp_now_send by the step
Sent ==
    IF Len(outbox') > Len(outbox)
    THEN SubSeq(outbox', Len(outbox) + 1, Len(outbox')) ELSE << >>

CountOf(seq, cmd) == Cardinality({k \in DOMAIN seq : seq[k].command = cmd})

Tally ==
    /\ nEnable' = nEnable + CountOf(Sent, CMD_ENABLE)
    /\ nDisable' = nDisable + CountOf(Sent, CMD_DISABLE)
    /\ lastSent' = IF Sent = << >> THEN lastSent ELSE Sent[Len(Sent)].command
    /\ UNCHANGED << pressVars, delivered, startWord, dimArg, dimOut >>

NextTally ==
    \/ Setup("ok") /\ Tally
    \/ PollColor(HIGH) /\ Tally
    \/ \E raw \in Levels : PollEnable(raw) /\ Tally
    \/ \E raw \in Levels : ConfirmEnable(raw) /\ Tally
    \/ SerialRead(NoByte) /\ Tally
    \/ Main /\ Tally
    \/ Render /\ Tally
    \/ TimerCheck /\ Tally
    \/ \E st \in 0..MaxInState : OnDataRecv(CMD_FSM, st) /\ Tally

SpecTally == Init /\ [][NextTally]_vars

(***************************************************************************)
(* The board late in the life of millis().  After any number of idle       *)
(* cycles (Disabled, no button pressed, nothing received) the counter      *)
(* stands at one of WrapBases; sessions are started from there.  The       *)
(* reading at each confirmed enable edge is kept as an unsigned word.      *)
(***************************************************************************)
\* a cycle of loop() with no input leaves this state as it is
Idle ==
    /\ pc = "color" /\ ~enabled
    /\ lastColorButtonState = HIGH /\ lastEnableButtonState = HIGH
    /\ ring = Fill(CurrentColor) /\ shown = alwaysBright(CurrentColor)
    /\ outbox = << >> /\ ~cycleEnabled /\ ~cycleEdge

LongIdle ==
    /\ Idle
    /\ now = WordOf(0)
    /\ now' \in WrapBases
    /\ UNCHANGED << pc, enabled, lastEnableButtonState, lastColorButtonState,
                    colorIndex, motionCommand, startTime, ring, input,
                    pattern, color, net, outbox, sendLog, shown >>
    /\ UNCHANGED << obsVars, envVars >>

Stamp ==
    /\ startWord' = IF pc = "confirm" /\ cycleEdge' THEN now' ELSE startWord
    /\ UNCHANGED << pressVars, delivered, nEnable, nDisable, lastSent,
                    dimArg, dimOut >>

NextWrap ==
    \/ Setup("ok") /\ Stamp
    \/ PollColor(HIGH) /\ Stamp
    \/ \E raw \in Levels : PollEnable(raw) /\ Stamp
    \/ \E raw \in Levels : ConfirmEnable(raw) /\ Stamp
    \/ SerialRead(NoByte) /\ Stamp
    \/ Main /\ Stamp
    \/ Render /\ Stamp
    \/ TimerCheck /\ Stamp
    \/ \E st \in 0..MaxInState : OnDataRecv(CMD_FSM, st) /\ Stamp
    \/ LongIdle

SpecWrap == Init /\ [][NextWrap]_vars

(***************************************************************************)
(* Properties                                                              *)
(***************************************************************************)
EnableMsg == Msg(CMD_ENABLE, 0)
DisableMsg == Msg(CMD_DISABLE, 0)

\* C1 as stated: at the end of every cycle, the messages sent in it are one
\* Enable if the session went Disabled->Enabled, one Disable if it went
\* Enabled->Disabled, and none if the enabled flag did not change.
C1_OneMessagePerTransition ==
    pc = "color" =>
        outbox = IF ~cycleEnabled /\ enabled THEN << EnableMsg >>
                 ELSE IF cycleEnabled /\ ~enabled THEN << DisableMsg >>
                 ELSE << >>

\* C1 amended: the messages sent in a cycle are one Enable for a confirmed
\* enable edge (whether the session was Disabled or already Enabled), then
\* one Disable if the session went Enabled->Disabled, and nothing else.
C1_OneMessagePerEdgeOrTimeout ==
    outbox = (IF cycleEdge THEN << EnableMsg >> ELSE << >>)
             \o (IF (cycleEnabled \/ cycleEdge) /\ ~enabled
                 THEN << DisableMsg >> ELSE << >>)

\* a cycle ended in which an edge was confirmed while already Enabled
C1_Witness ==
    /\ pc = "color"
    /\ cycleEnabled /\ cycleEdge /\ enabled
    /\ outbox = << EnableMsg >>

C4_CursorIsEdgesMod5 == colorIndex = nColorEdges % 5

\* the cursor has wrapped: six accepted edges
C4_Witness == nColorEdges = 5 /\ colorIndex = 0 /\ pc = "enable"

\* C5: a cycle that reaches the render step with the session Disabled ends
\* there, with the ring showing the palette color under the cursor on every
\* pixel and nothing else shown by that step, whatever the Display State is.
C5_DisabledCycleEndsSolid ==
    [][ (pc = "main" /\ pc' # "main" /\ ~enabled) =>
            /\ pc' = "color"
            /\ ring' = [i \in Pixels |-> colors[colorIndex + 1]]
            /\ shown' = shown \o << Frame(ring', 0) >>
      ]_vars

\* a Disabled cycle ended solid Blue while the Display State was slow blink
C5_Witness ==
    /\ pc = "color" /\ shown # << >>
    /\ ~enabled /\ ~cycleEnabled /\ ~cycleEdge
    /\ colorIndex = 2 /\ motionCommand = 2
    /\ ring = Fill(Color(0, 0, 255))

\* number of display calls and total hold time of each pattern
PatternShape ==
    << [n |-> 8, ms |-> 800], [n |-> 8, ms |-> 800], [n |-> 2, ms |-> 600],
       [n |-> 2, ms |-> 80], [n |-> 1, ms |-> 0], [n |-> 9, ms |-> 1140],
       [n |-> 8, ms |-> 640] >>

\* the frames appended to shown by a step
NewFrames == SubSeq(shown', Len(shown) + 1, Len(shown'))

\* C6: a delivered message with command 3 and state s makes s the Display
\* State; an Enabled render step that starts while that write is the latest
\* one selects pattern s; the render of a pattern in 0..6 makes the display
\* calls and holds of that pattern, and pattern 4 shows the current color
\* solid in one display call without a hold.
C6_RenderUsesDelivered ==
    [][ /\ (lastSrc' = "recv" /\ (lastSrc # "recv" \/ lastWrite' # lastWrite))
              => motionCommand' = lastWrite'
        /\ (pc = "main" /\ pc' = "render" /\ lastSrc = "recv")
              => pattern' = lastWrite /\ color' = colors[colorIndex + 1]
        /\ (pc = "render" /\ pc' = "timer" /\ pattern \in 0..6)
              => /\ Len(NewFrames) = PatternShape[pattern + 1].n
                 /\ SumMs(NewFrames) = PatternShape[pattern + 1].ms
                 /\ ring' = shown'[Len(shown')].px
        /\ (pc = "render" /\ pc' = "timer" /\ pattern = 4)
              => /\ ring' = [i \in Pixels |-> color]
                 /\ NewFrames = << Frame(ring', 0) >>
      ]_vars

\* a delivered Stop was rendered solid in an Enabled cycle
C6_Witness ==
    /\ pc = "timer" /\ enabled
    /\ lastSrc = "recv" /\ lastWrite = 4 /\ pattern = 4
    /\ ring = Fill(color) /\ color = CurrentColor

\* C7: the Display State always holds the value of the latest write, the
\* delivered state byte or the digit of the debug character, whichever of
\* the two writers stored last.
C7_LastWriterWins == motionCommand = lastWrite

\* a debug character '5' overwrote a delivered state
C7_Witness == lastSrc = "debugOverRecv" /\ motionCommand = 5 /\ pc = "main"

C10_OutOfRangeIsNoOp ==
    [][ /\ (lastSrc' = "recv" /\ lastWrite' # lastWrite /\ lastWrite' \notin 0..6)
              => motionCommand' = lastWrite'
        /\ (pc = "render" /\ pc' # "render" /\ pattern \notin 0..6)
              => pc' = "timer" /\ ring' = ring /\ shown' = shown
        /\ (pc = "timer" /\ pc' # "timer" /\ enabled /\ pattern \notin 0..6)
              => /\ pc' = "color"
                 /\ enabled' = ~WordGt(Elapsed, 150000)
                 /\ outbox' = IF WordGt(Elapsed, 150000)
                              THEN Append(outbox, DisableMsg) ELSE outbox
      ]_vars

\* a session timed out in a cycle whose render was the no-op of pattern 7
C10_Witness ==
    /\ pc = "color" /\ cycleEnabled /\ ~enabled
    /\ motionCommand = 7 /\ lastSrc = "recv"
    /\ shown = << >>
    /\ outbox = << DisableMsg >>

\* C3 as stated: when a press ends that lasted at least the settle delay,
\* exactly one event has been reported for it, for either button.
C3_OneEventPerPress ==
    [][ \A b \in Buttons :
          (/\ btn[b] # "open" /\ btn'[b] = "open"
           /\ WordGe(Sub32(now, pressedAt[b]), DebounceMs))
          => hits[b] = 1
      ]_vars

C11_FailedSendIsNonFatal ==
    [][ /\ (pc = "confirm" /\ cycleEdge') =>
              /\ enabled' /\ startTime' = ToInt32(now') /\ pc' = "serial"
              /\ outbox' = Append(outbox, EnableMsg)
              /\ Len(sendLog') = Len(sendLog) + 1
        /\ (pc = "timer" /\ pc' # "timer" /\ enabled /\ WordGt(Elapsed, 150000)) =>
              /\ ~enabled' /\ pc' = "color"
              /\ outbox' = Append(outbox, DisableMsg)
              /\ Len(sendLog') = Len(sendLog) + 1
        /\ (Len(outbox') > Len(outbox) \/ Len(sendLog') > Len(sendLog)) =>
              \/ pc = "confirm" /\ cycleEdge'
              \/ pc = "timer" /\ enabled /\ ~enabled'
      ]_vars

\* the Enable send failed on a working transport and the session is Enabled
C11_Witness ==
    /\ pc = "serial" /\ net = "ok"
    /\ enabled /\ ~cycleEnabled /\ cycleEdge
    /\ startTime = DebounceMs
    /\ outbox = << EnableMsg >> /\ sendLog = << "failed" >>

\* C12: the delivery of a message with command 1 or 2 leaves every variable
\* of the program as it was: Display State, enabled flag, start timestamp,
\* palette cursor, the messages sent, and the rest.
C12_EnableDisableInboundIgnored ==
    [][ (delivered' # delivered /\ delivered'.command \in {1, 2}) =>
            /\ motionCommand' = motionCommand
            /\ enabled' = enabled
            /\ startTime' = startTime
            /\ colorIndex' = colorIndex
            /\ outbox' = outbox /\ sendLog' = sendLog
            /\ UNCHANGED progVars
      ]_vars

\* an inbound Enable with state 4 was delivered to a Disabled board whose
\* Display State is still 0
C12_Witness ==
    /\ delivered = [command |-> 1, state |-> 4]
    /\ ~enabled /\ ~cycleEnabled /\ ~cycleEdge
    /\ motionCommand = 0 /\ pc = "main"

\* C16 as stated: after a setup that did not end with the transport up and
\* the peer registered, no inbound message writes the Display State.
C16_NoInboundAfterFailedSetup ==
    [][ (pc # "setup" /\ net # "ok") =>
            (delivered' = delivered \/ motionCommand' = motionCommand)
      ]_vars

\* channel k of a packed color: 0 blue, 1 green, 2 red
Channel(c, k) == (c \div (256 ^ k)) % 256

\* C13: every channel of dimColor(color, brightness) is the floor of
\* channel * brightness / 255 and never more than the channel; brightness 0
\* gives black and brightness 255 gives the three channels back.
C13_DimColorScales ==
    dimOut # NotDimmed =>
        /\ \A k \in 0..2 :
              /\ Channel(dimOut, k) =
                    (Channel(dimArg.color, k) * dimArg.brightness) \div 255
              /\ Channel(dimOut, k) <= Channel(dimArg.color, k)
        /\ dimOut \in 0..(256 ^ 3 - 1)
        /\ dimArg.brightness = 0 => dimOut = 0
        /\ dimArg.brightness = 255 => dimOut = dimArg.color % (256 ^ 3)

\* Yellow dimmed to 100: the product 255 * 100 does not fit eight bits
C13_Witness ==
    /\ dimArg = [color |-> Color(255, 255, 0), brightness |-> 100]
    /\ dimOut = Color(100, 100, 0)

\* the indices of the lit pixels of a frame
Lit(frame) == {i \in 0..7 : frame.px[i] # 0}

\* C14: the render of pattern 0 or 1 shows eight frames, each with exactly
\* one pixel lit in the color of the burst; in pattern 0 frame k lights index
\* k - 1, in pattern 1 frame k lights index 8 - k, so every index 0..7 is
\* visited once, in increasing and in decreasing order.
C14_RotationVisitsEachPixelOnce ==
    [][ (pc = "render" /\ pc' = "timer" /\ pattern \in {0, 1}) =>
            /\ Len(NewFrames) = 8
            /\ \A k \in 1..8 :
                  /\ Lit(NewFrames[k]) =
                        {IF pattern = 0 THEN k - 1 ELSE 8 - k}
                  /\ \A i \in Lit(NewFrames[k]) : NewFrames[k].px[i] = color
            /\ {i \in 0..7 : \E k \in 1..8 : i \in Lit(NewFrames[k])} = 0..7
      ]_vars

\* a counter-clockwise pass has ended on pixel 0
C14_Witness ==
    /\ pc = "timer" /\ pattern = 1 /\ color = Color(0, 255, 0)
    /\ Len(shown) = 8
    /\ ring = [i \in Pixels |-> IF i = 0 THEN color ELSE 0]

\* C15: while a render call is in progress a delivery changes neither the
\* pattern and color of the burst nor what is shown; the burst ends with the
\* display calls and holds of the pattern chosen at its start, in the color
\* chosen at its start, and with the session still Enabled even if the
\* deadline passed meanwhile; the timer check after the burst sends the
\* Disable, and the next cycle's switch reads the new Display State.
C15_BurstRunsToCompletion ==
    [][ /\ (pc = "render" /\ pc' = "render") =>
              /\ pattern' = pattern /\ color' = color
              /\ shown' = shown /\ ring' = ring /\ enabled' = enabled
        /\ (pc = "render" /\ pc' = "timer") =>
              /\ pattern' = pattern /\ color' = color
              /\ enabled' = enabled /\ outbox' = outbox
              /\ pattern \in 0..6 =>
                    /\ Len(NewFrames) = PatternShape[pattern + 1].n
                    /\ SumMs(NewFrames) = PatternShape[pattern + 1].ms
                    /\ \A k \in 1..Len(NewFrames) : \A i \in Pixels :
                          NewFrames[k].px[i] \in
                              {0, color, dimColor(color, 100), dimColor(color, 40)}
        /\ (pc = "timer" /\ pc' = "color" /\ enabled /\ WordGt(Elapsed, 150000)) =>
              /\ ~enabled'
              /\ outbox' = Append(outbox, DisableMsg)
        /\ (pc = "main" /\ pc' = "render") => pattern' = motionCommand
      ]_vars

\* a wipe burst has ended although Stop was delivered and the deadline
\* passed while it ran
C15_Witness ==
    /\ pc = "timer" /\ enabled
    /\ pattern = 5 /\ Len(shown) = 9
    /\ motionCommand = 4 /\ lastSrc = "recv"
    /\ WordGt(Elapsed, 150000)

\* C17: the Disable messages sent never outnumber the Enable messages sent;
\* a step sends at most one Disable, only in a cycle that started Enabled,
\* and only when the message sent before it was an Enable.
C17_DisableFollowsEnable ==
    /\ [](nDisable <= nEnable)
    /\ [][ (nDisable' # nDisable) =>
              /\ nDisable' = nDisable + 1
              /\ cycleEnabled
              /\ lastSent = CMD_ENABLE
         ]_vars

\* a session restarted by a second press has timed out: two Enables, then
\* one Disable
C17_Witness ==
    /\ nEnable = 2 /\ nDisable = 1
    /\ lastSent = CMD_DISABLE
    /\ ~enabled /\ pc = "color"

\* C18: an enable edge confirmed while the session is Enabled leaves it
\* Enabled, makes the reading of millis() taken then the start timestamp and
\* sends an Enable; the start timestamp changes at no other step, and the
\* session is ended only by a timer check made more than 150,000 ms after
\* it, that is after the most recent confirmed edge.
C18_RepressRestartsTimer ==
    [][ /\ (pc = "confirm" /\ enabled /\ cycleEdge') =>
              /\ enabled'
              /\ startTime' = ToInt32(now')
              /\ outbox' = Append(outbox, EnableMsg)
        /\ (pc = "confirm" /\ cycleEdge') => ToUint32(startTime') = now'
        /\ (startTime' # startTime) => (pc = "confirm" /\ cycleEdge')
        /\ (enabled /\ ~enabled') =>
              WordGt(Sub32(now, ToUint32(startTime)), 150000)
      ]_vars

\* a second edge was confirmed at 150,050 ms in a session started earlier
C18_Witness ==
    /\ pc = "serial"
    /\ cycleEnabled /\ cycleEdge /\ enabled
    /\ now = WordOf(150050) /\ startTime = 150050
    /\ outbox = << EnableMsg >>

\* C19: for either button, the events produced since the button last read
\* HIGH at a poll are never more than one: a button that reads LOW at every
\* poll advances the palette at most once and starts at most one session.
C19_HeldButtonOneEvent == \A b \in Buttons : run[b] <= 1

\* both buttons are held closed, each has produced its one event, and in
\* this later cycle both polls have read LOW without a further event
C19_Witness ==
    /\ pc = "serial" /\ ~cycleEdge /\ shown = << >>
    /\ lastColorButtonState = LOW /\ lastEnableButtonState = LOW
    /\ \A b \in Buttons :
          /\ btn[b] = "closed"
          /\ run[b] = 1 /\ hits[b] = 1
          /\ WordGe(Sub32(now, pressedAt[b]), DebounceMs)

\* C20: the int start timestamp, read back as an unsigned word, is the
\* reading of millis() taken at the latest confirmed enable edge, also when
\* that reading is beyond the largest int; and a timer check ends the
\* session exactly when the counter has advanced, modulo 2^32, by more than
\* 150,000 ms since that reading.
C20_TimeoutAcrossWrap ==
    /\ [](enabled => ToUint32(startTime) = startWord)
    /\ [][ (pc = "timer" /\ pc' # "timer" /\ enabled) =>
              (~enabled' <=> WordGt(Sub32(now, startWord), 150000))
         ]_vars

\* a session started 149,950 ms before the counter wrapped, with a negative
\* start timestamp, was ended 150,001 ms later, after the wrap
C20_Witness ==
    /\ pc = "color" /\ cycleEnabled /\ ~enabled
    /\ startWord = Sub32(WordOf(0), WordOf(150000 - 50))
    /\ startTime = 50 - 150000
    /\ now = WordOf(51)
    /\ outbox = << DisableMsg >>

=============================================================================
